---- MODULE Spec2Model ----
(***************************************************************************)
(* Model of chat_agent.py: a Streamlit chat front-end over an Ollama       *)
(* backend.  The script main() is re-executed from the top on every user   *)
(* event; st.session_state and the widget values survive between runs.     *)
(* A run that is consuming chat_stream() is suspended between chunks and   *)
(* is abandoned (its locals dropped) when a new user event arrives.        *)
(* Text is modelled as a sequence of tokens; + on str is \o.               *)
(***************************************************************************)
EXTENDS Integers, Sequences, FiniteSets, TLC

(* ------------------------------ bounds --------------------------------- *)
MaxMessages == 4      \* submitPrompt is not offered beyond this history length
MaxFrames == 2        \* frames the backend sends on one stream
MaxLines == 3         \* lines of a text given to process_message

(* --------------------------- configuration ----------------------------- *)
DEFAULT_MODEL == "deepseek-r1:14b"
None == "None"
NoPrompt == <<>>
Catalogs == { <<DEFAULT_MODEL, "m1">>, <<"m1", "m2">> }
Prompts == { <<"hi">>, <<"yo">> }
Reply == << "Hel", "lo!", " How", " are", " you?" >>
Errors == { "ConnectionError" }
DefaultTemperature == 7
DefaultContextLength == 4096

VARIABLES
    messages,                   \* st.session_state.messages
    model,                      \* st.session_state.model
    current_chat_model,         \* st.session_state.current_chat_model
    show_model_switch_warning,  \* st.session_state.show_model_switch_warning
    temperature,                \* st.session_state.temperature (tenths)
    context_length,             \* st.session_state.context_length
    selectbox,                  \* widget state of "Select Model": [index, value]
    confirm_shown,              \* Confirm/Cancel buttons rendered by the last run
    chat_input_shown,           \* st.chat_input rendered by the last run
    selectbox_rendered,         \* selectbox rendered by the last run
    pc,                         \* "start", "idle" or "streaming"
    prompt,                     \* local of main(): the prompt of the running turn
    full_response,              \* local of main(): chunks accumulated so far
    payload,                    \* request body posted by chat_stream
    stream,                     \* "none", "open" or "failed"
    frames,                     \* frames read from the open response
    catalog,                    \* models the backend has installed
    H,                          \* history as it was when the turn was accepted
    yielded,                    \* the chunks chat_stream has yielded, in order
    pendingH,                   \* history when the switch warning was raised
    content,                    \* argument of process_message, as its lines
    output,                     \* what process_message returned, as its lines
    last                        \* the event that produced this state: its
                                \* kind, the pc and history length it met,
                                \* the model picked, whether it was served

vars == << messages, model, current_chat_model, show_model_switch_warning,
           temperature, context_length, selectbox, confirm_shown,
           chat_input_shown, selectbox_rendered, pc, prompt, full_response,
           payload, stream, frames, catalog, H, yielded,
           pendingH, content, output, last >>

(* ------------------------------ helpers -------------------------------- *)
NoWidgetState == [index |-> 0, value |-> None]
NoPayload == [model |-> None, messages |-> <<>>, stream |-> FALSE,
              options |-> [temperature |-> 0, num_ctx |-> 0]]

InList(x, xs) == \E i \in 1..Len(xs) : xs[i] = x

\* list.index(x): position of the first occurrence
ListIndex(xs, x) == CHOOSE i \in 1..Len(xs) : xs[i] = x /\ \A j \in 1..(i-1) : xs[j] # x

\* the session state the script reads and writes
Session == [ messages |-> messages, model |-> model,
             current_chat_model |-> current_chat_model,
             show_model_switch_warning |-> show_model_switch_warning,
             temperature |-> temperature, context_length |-> context_length,
             selectbox |-> selectbox ]

initialize_session_state ==
    [ messages |-> <<>>, model |-> DEFAULT_MODEL, current_chat_model |-> None,
      show_model_switch_warning |-> FALSE, temperature |-> DefaultTemperature,
      context_length |-> DefaultContextLength, selectbox |-> NoWidgetState ]

\* the "models" array of a well-formed /api/tags body
TagEntries(cat) ==
    [ i \in 1..Len(cat) |-> [ has_name |-> TRUE, name |-> cat[i] ] ]

\* what requests.get(".../api/tags") can come back with: no connection, a
\* status other than 200, a body that is not JSON, a JSON object without
\* "models", an entry without "name", or the list of the installed models
Responses(cat) ==
    LET ok == [ reachable |-> TRUE, status_code |-> 200, json |-> TRUE,
                has_models |-> TRUE, models |-> TagEntries(cat) ]
    IN { [ok EXCEPT !.reachable = FALSE],
         [ok EXCEPT !.status_code = 500],
         [ok EXCEPT !.json = FALSE],
         [ok EXCEPT !.has_models = FALSE],
         [ok EXCEPT !.models[Len(cat)].has_name = FALSE],
         ok }

\* variant: entries without a name are skipped
models_of_response_partial(response) ==
    IF ~response.reachable \/ response.status_code # 200 \/ ~response.json
    THEN <<>>
    ELSE LET models == IF response.has_models THEN response.models ELSE <<>>
             named == SelectSeq(models, LAMBDA m : m.has_name)
         IN [ i \in 1..Len(named) |-> named[i].name ]

\* get_available_models() after the request: the names of the models of a
\* 200 response, [] for another status and when anything raises
models_of_response(response) ==
    IF ~response.reachable THEN <<>>
    ELSE IF response.status_code = 200
    THEN IF ~response.json THEN <<>>
         ELSE LET models == IF response.has_models THEN response.models
                            ELSE <<>>
              IN IF \E i \in 1..Len(models) : ~models[i].has_name
                 THEN <<>>
                 ELSE [ i \in 1..Len(models) |-> models[i].name ]
    ELSE <<>>

\* get_available_models(): the installed models, or [] on any failure
get_available_models(cat) ==
    { models_of_response(response) : response \in Responses(cat) }

\* variant: the switch is immediate even when a chat is under way
handle_model_switch_silent(s, new_model) ==
    [ s |-> [s EXCEPT !.current_chat_model = new_model,
                      !.show_model_switch_warning = FALSE],
      ret |-> FALSE ]

\* variant: an immediate switch does not bind the chat to the new model
handle_model_switch_forget(s, new_model) ==
    IF s.messages # <<>> /\ s.current_chat_model # None
          /\ new_model # s.current_chat_model
    THEN [ s |-> [s EXCEPT !.show_model_switch_warning = TRUE], ret |-> TRUE ]
    ELSE [ s |-> [s EXCEPT !.show_model_switch_warning = FALSE], ret |-> FALSE ]

\* variant: the new model becomes the chat model before the user confirms
handle_model_switch_eager(s, new_model) ==
    IF s.messages # <<>> /\ s.current_chat_model # None
          /\ new_model # s.current_chat_model
    THEN [ s |-> [s EXCEPT !.show_model_switch_warning = TRUE,
                           !.current_chat_model = new_model],
           ret |-> TRUE ]
    ELSE [ s |-> [s EXCEPT !.current_chat_model = new_model,
                           !.show_model_switch_warning = FALSE],
           ret |-> FALSE ]

handle_model_switch(s, new_model) ==
    IF s.messages # <<>> /\ s.current_chat_model # None
          /\ new_model # s.current_chat_model
    THEN [ s |-> [s EXCEPT !.show_model_switch_warning = TRUE], ret |-> TRUE ]
    ELSE [ s |-> [s EXCEPT !.current_chat_model = new_model,
                           !.show_model_switch_warning = FALSE],
           ret |-> FALSE ]

\* variant: the chat model is reset but the messages are kept
clear_chat_history_keep(s) ==
    [s EXCEPT !.current_chat_model = None]

clear_chat_history(s) ==
    [s EXCEPT !.messages = <<>>, !.current_chat_model = None]

system_msg == [ role |-> "system",
                content |-> <<"You are a helpful AI assistant. Maintain conversational context and provide consistent responses.">> ]

\* chat_stream, up to the POST: the request body built from the session
chat_stream_payload(s, p) ==
    LET conversation ==
            [ i \in 1..Len(s.messages) |->
                [ role |-> s.messages[i].role, content |-> s.messages[i].content ] ]
            \o << [ role |-> "user", content |-> p ] >>
        final_messages == << system_msg >> \o conversation
    IN [ model |-> IF s.current_chat_model # None THEN s.current_chat_model
                   ELSE s.model,
         messages |-> final_messages,
         stream |-> TRUE,
         options |-> [ temperature |-> s.temperature,
                       num_ctx |-> s.context_length ] ]

\* variant: the exception text is yielded without the prefix
ErrorChunk_bare(e) == << e >>

\* chat_stream, the except clause: the text yielded when the request fails
ErrorChunk(e) == << "Error: ", e >>

(* --------------------------- process_message --------------------------- *)
\* A text is the sequence of its lines, as content.split gives them
\* (never empty: "" has the one line ""), a line the sequence of its
\* characters.
EmptyLine == <<>>
Backtick == "backtick"
Fence == << Backtick, Backtick, Backtick >>
FencePython == << Backtick, Backtick, Backtick, "p", "y", "t", "h", "o", "n" >>
NotProcessed == <<>>

\* str.strip(): leading and trailing white space removed
RECURSIVE lstrip(_)
lstrip(line) ==
    IF line # <<>> /\ Head(line) = " " THEN lstrip(Tail(line)) ELSE line

RECURSIVE rstrip(_)
rstrip(line) ==
    IF line # <<>> /\ line[Len(line)] = " "
    THEN rstrip(SubSeq(line, 1, Len(line) - 1)) ELSE line

strip(line) == rstrip(lstrip(line))

startswith(line, prefix) ==
    /\ Len(line) >= Len(prefix)
    /\ SubSeq(line, 1, Len(prefix)) = prefix

\* process_message, line 217: the test that makes a line a fence
IsFence(line) == startswith(strip(line), Fence)

\* process_message, lines 217-232: the body of the loop for one line
process_line(st, line) ==
    IF IsFence(line)
    THEN IF st.in_code_block
         THEN [ parts |-> IF st.current_block # <<>>
                          THEN st.parts \o << << FencePython >>,
                                              st.current_block,
                                              << Fence >> >>
                          ELSE st.parts,
                current_block |-> <<>>,
                in_code_block |-> FALSE ]
         ELSE [ parts |-> IF st.current_block # <<>>
                          THEN Append(st.parts, st.current_block)
                          ELSE st.parts,
                current_block |-> <<>>,
                in_code_block |-> TRUE ]
    ELSE [st EXCEPT !.current_block = Append(@, line)]

\* process_message, lines 211-232: the loop over the lines
RECURSIVE process_lines(_, _)
process_lines(st, lines) ==
    IF lines = <<>> THEN st
    ELSE process_lines(process_line(st, Head(lines)), Tail(lines))

\* variant: a block left open at the end is not closed
flush_block_unclosed(st) ==
    IF st.current_block # <<>>
    THEN IF st.in_code_block
         THEN st.parts \o << << FencePython >>, st.current_block >>
         ELSE Append(st.parts, st.current_block)
    ELSE st.parts

\* process_message, lines 234-240: what is left after the last line
flush_block(st) ==
    IF st.current_block # <<>>
    THEN IF st.in_code_block
         THEN st.parts \o << << FencePython >>, st.current_block, << Fence >> >>
         ELSE Append(st.parts, st.current_block)
    ELSE st.parts

\* the join of the parts with a newline, as lines: the lines of the parts one after the other;
\* the join of no parts is "", which has one empty line
RECURSIVE join(_)
join(parts) ==
    IF parts = <<>> THEN << EmptyLine >>
    ELSE IF Len(parts) = 1 THEN Head(parts)
    ELSE Head(parts) \o join(Tail(parts))

process_message(text) ==
    LET st == process_lines([ parts |-> <<>>, current_block |-> <<>>,
                              in_code_block |-> FALSE ], text)
    IN join(flush_block(st))

(* ------------------------- one run of main() --------------------------- *)
\* what the widgets return in one run: the button clicked (if any), the
\* text submitted to st.chat_input (if any) and the slider positions (the
\* sliders are left where they are and return the stored values)
WidgetInput(kind, s) ==
    [ kind |-> kind, prompt |-> NoPrompt, pick |-> None,
      temperature |-> s.temperature, context_length |-> s.context_length ]

\* st.selectbox(..., index=...): a widget is identified by its arguments, so
\* the value chosen by the user is returned only while index is the one the
\* widget was created with; otherwise the widget is new and returns
\* options[index]
selectbox_index(s, available_models) ==
    IF InList(s.model, available_models)
    THEN ListIndex(available_models, s.model) ELSE 1

selectbox_value(s, available_models) ==
    LET index == selectbox_index(s, available_models)
    IN IF s.selectbox.index = index /\ InList(s.selectbox.value, available_models)
       THEN s.selectbox.value
       ELSE available_models[index]

\* variant: the switch is confirmed without emptying the history
confirm_switch_keep(s, new_model) ==
    [s EXCEPT !.model = new_model,
              !.current_chat_model = new_model,
              !.show_model_switch_warning = FALSE]

\* main(), lines 323-326: the Confirm button of the switch warning
confirm_switch(s, new_model) ==
    [s EXCEPT !.messages = <<>>,
              !.model = new_model,
              !.current_chat_model = new_model,
              !.show_model_switch_warning = FALSE]

\* main(), lines 330-331: the Cancel button of the switch warning
cancel_switch(s, previous_model) ==
    [s EXCEPT !.model = previous_model,
              !.show_model_switch_warning = FALSE]

\* main(), lines 308-334: the model selection block of the sidebar.
\* new_model is what the selectbox returned (None when it was not drawn),
\* clicked tells whether a Confirm or Cancel click was served
sidebar_model(s, ev, available_models) ==
    IF available_models = <<>>
    THEN [ s |-> s, rerun |-> FALSE, confirm_shown |-> FALSE, rendered |-> FALSE,
           new_model |-> None, clicked |-> FALSE ]
    ELSE
      LET previous_model == s.model
          new_model == selectbox_value(s, available_models)
          s0 == [s EXCEPT !.selectbox =
                    [ index |-> selectbox_index(s, available_models),
                      value |-> new_model ]]
          out == [ s |-> s0, rerun |-> FALSE, confirm_shown |-> FALSE,
                   rendered |-> TRUE, new_model |-> new_model, clicked |-> FALSE ]
      IN IF new_model # previous_model
         THEN LET h == handle_model_switch(s0, new_model)
              IN IF h.ret
                 THEN IF ev.kind = "confirm"
                      THEN [out EXCEPT !.s = confirm_switch(h.s, new_model),
                                       !.rerun = TRUE, !.confirm_shown = TRUE,
                                       !.clicked = TRUE]
                      ELSE IF ev.kind = "cancel"
                      THEN [out EXCEPT !.s = cancel_switch(h.s, previous_model),
                                       !.rerun = TRUE, !.confirm_shown = TRUE,
                                       !.clicked = TRUE]
                      ELSE [out EXCEPT !.s = h.s, !.confirm_shown = TRUE]
                 ELSE [out EXCEPT !.s = [h.s EXCEPT !.model = new_model]]
         ELSE out

\* main(), lines 336-360: the sliders and the Clear button
sidebar_rest(r, ev) ==
    IF r.rerun THEN r
    ELSE LET s1 == [r.s EXCEPT !.temperature = ev.temperature,
                               !.context_length = ev.context_length]
         IN IF ev.kind = "clear"
            THEN [r EXCEPT !.s = clear_chat_history(s1), !.rerun = TRUE]
            ELSE [r EXCEPT !.s = s1]

\* variant: the chat input is drawn whatever the warning flag
chat_input_always(s) == TRUE

\* main(), line 377: the chat input is drawn unless a switch is pending
chat_input_enabled(s) == ~s.show_model_switch_warning

\* main(), lines 379-385: a submitted prompt enters the history
append_user(s, text) ==
    LET s1 == IF s.current_chat_model = None
              THEN [s EXCEPT !.current_chat_model = s.model]
              ELSE s
    IN [s1 EXCEPT !.messages =
           Append(s1.messages, [ role |-> "user", content |-> text ])]

\* main(), lines 366-402 up to the first chunk: the chat input.  turn is the
\* prompt whose reply is being streamed when the run is suspended, payload
\* the request chat_stream has posted for it
chat_input(r, ev) ==
    LET base == [ s |-> r.s, rerun |-> r.rerun, confirm_shown |-> r.confirm_shown,
                  rendered |-> r.rendered, new_model |-> r.new_model,
                  clicked |-> r.clicked, chat_input_shown |-> FALSE,
                  turn |-> NoPrompt, payload |-> NoPayload ]
    IN IF r.rerun THEN base
       ELSE IF chat_input_enabled(r.s) /\ ev.prompt # NoPrompt
       THEN LET s2 == append_user(r.s, ev.prompt)
            IN [base EXCEPT !.s = s2, !.chat_input_shown = TRUE,
                            !.turn = ev.prompt,
                            !.payload = chat_stream_payload(s2, ev.prompt)]
       ELSE [base EXCEPT !.chat_input_shown = chat_input_enabled(r.s)]

\* one execution of main() from the top (each stage is evaluated once and
\* its result handed to the next)
main(s, ev, available_models) ==
    CHOOSE out \in
        { chat_input(r2, ev) :
            r2 \in { sidebar_rest(r1, ev) :
                r1 \in { sidebar_model(s, ev, available_models) } } } : TRUE

\* a run that ends normally forgets the state of widgets it did not render
script_finished(r) ==
    IF r.rendered THEN r.s ELSE [r.s EXCEPT !.selectbox = NoWidgetState]

\* whether the first run served the widget the user triggered: the pick
\* was returned by the selectbox, the button or the chat input was drawn
served(r1, ev) ==
    CASE ev.kind = "select" -> r1.new_model = ev.pick
      [] ev.kind \in { "confirm", "cancel" } -> r1.clicked
      [] ev.kind = "submit" -> r1.turn # NoPrompt
      [] OTHER -> TRUE

\* an event and the runs it causes: st.rerun() starts main() again with no
\* widget triggered
RunScript(s, ev, avail1, avail2) ==
    CHOOSE out \in
        { [ run |-> IF r1.rerun
                    THEN main(r1.s, WidgetInput("rerun", r1.s), avail2)
                    ELSE r1,
            served |-> served(r1, ev) ] :
            r1 \in { main(s, ev, avail1) } } : TRUE

(* ------------------------------ actions -------------------------------- *)
\* the session of a browser that has not loaded the page yet
SessionInit ==
    /\ catalog \in Catalogs
    /\ messages = initialize_session_state.messages
    /\ model = initialize_session_state.model
    /\ current_chat_model = initialize_session_state.current_chat_model
    /\ show_model_switch_warning = initialize_session_state.show_model_switch_warning
    /\ temperature = initialize_session_state.temperature
    /\ context_length = initialize_session_state.context_length
    /\ selectbox = initialize_session_state.selectbox
    /\ confirm_shown = FALSE
    /\ chat_input_shown = FALSE
    /\ selectbox_rendered = FALSE
    /\ pc = "start"
    /\ prompt = NoPrompt
    /\ full_response = <<>>
    /\ payload = NoPayload
    /\ stream = "none"
    /\ frames = 0
    /\ H = <<>>
    /\ yielded = <<>>
    /\ pendingH = <<>>
    /\ last = [ kind |-> "init", during |-> "start", served |-> TRUE,
                pick |-> None, before |-> 0 ]

Init ==
    /\ SessionInit
    /\ content = << EmptyLine >>
    /\ output = NotProcessed

\* A user event reaches the server: the run in progress (if any) is
\* abandoned with its locals, and main() runs with the widget values of the
\* event.  It runs to its end, or up to the point where it waits for the
\* first chunk of chat_stream.
Deliver(s, ev) ==
    \E avail1 \in get_available_models(catalog),
       avail2 \in get_available_models(catalog) :
      \E rs \in { RunScript(s, ev, avail1, avail2) } :
        LET r == rs.run
            streaming == r.turn # NoPrompt
            fin == IF streaming THEN r.s ELSE script_finished(r)
        IN /\ messages' = fin.messages
           /\ model' = fin.model
           /\ current_chat_model' = fin.current_chat_model
           /\ show_model_switch_warning' = fin.show_model_switch_warning
           /\ temperature' = fin.temperature
           /\ context_length' = fin.context_length
           /\ selectbox' = fin.selectbox
           /\ confirm_shown' = r.confirm_shown
           /\ chat_input_shown' = r.chat_input_shown
           /\ selectbox_rendered' = r.rendered
           /\ pc' = IF streaming THEN "streaming" ELSE "idle"
           /\ prompt' = r.turn
           /\ full_response' = <<>>
           /\ payload' = r.payload
           /\ stream' = IF streaming THEN "open" ELSE "none"
           /\ frames' = 0
           /\ H' = IF streaming THEN messages ELSE <<>>
           /\ yielded' = <<>>
           /\ pendingH' = IF ~fin.show_model_switch_warning THEN <<>>
                          ELSE IF show_model_switch_warning THEN pendingH
                          ELSE fin.messages
           /\ last' = [ kind |-> ev.kind, during |-> pc, served |-> rs.served,
                        pick |-> ev.pick, before |-> Len(messages) ]
           /\ UNCHANGED << catalog, content, output >>

\* the browser opens the page: first run of main()
PageLoad ==
    /\ pc = "start"
    /\ Deliver(Session, WidgetInput("load", Session))

\* the user picks new_model in the "Select Model" box
SelectModel(new_model) ==
    /\ pc # "start"
    /\ selectbox_rendered
    /\ InList(new_model, catalog)
    /\ new_model # selectbox.value
    /\ LET s == [Session EXCEPT !.selectbox.value = new_model]
       IN Deliver(s, [WidgetInput("select", s) EXCEPT !.pick = new_model])

ClickConfirm ==
    /\ pc = "idle"
    /\ confirm_shown
    /\ Deliver(Session, WidgetInput("confirm", Session))

ClickCancel ==
    /\ pc = "idle"
    /\ confirm_shown
    /\ Deliver(Session, WidgetInput("cancel", Session))

ClickClear ==
    /\ pc # "start"
    /\ Deliver(Session, WidgetInput("clear", Session))

SubmitPrompt(text) ==
    /\ pc # "start"
    /\ chat_input_shown
    /\ Len(messages) + 2 <= MaxMessages
    /\ Deliver(Session, [WidgetInput("submit", Session) EXCEPT !.prompt = text])

StreamUnchanged ==
    UNCHANGED << messages, model, current_chat_model, show_model_switch_warning,
                 temperature, context_length, selectbox, confirm_shown,
                 chat_input_shown, selectbox_rendered, prompt, payload,
                 catalog, H, pendingH, content, output >>

StreamEvent(kind) ==
    [ kind |-> kind, during |-> pc, served |-> TRUE, pick |-> None,
      before |-> Len(messages) ]

\* variant: the chunk is put in front of what was received
accumulate_front(response, chunk) == chunk \o response

\* main(), line 394: full_response += chunk
accumulate(response, chunk) == response \o chunk

\* variant: the reply is stored without its model
append_assistant_untagged(s, response) ==
    Append(s.messages, [ role |-> "assistant", content |-> response,
                         model |-> None ])

\* main(), lines 397-401: the finished reply enters the history
append_assistant(s, response) ==
    Append(s.messages, [ role |-> "assistant", content |-> response,
                         model |-> s.current_chat_model ])

\* chat_stream lines 285-289 and main lines 393-395: one frame of the
\* response; a frame with a "message" is yielded and accumulated
FrameReceived(frame) ==
    /\ pc = "streaming"
    /\ stream = "open"
    /\ frames < MaxFrames
    /\ frames' = frames + 1
    /\ full_response' = IF frame.has_message
                        THEN accumulate(full_response, frame.content)
                        ELSE full_response
    /\ yielded' = IF frame.has_message THEN Append(yielded, frame.content)
                  ELSE yielded
    /\ last' = StreamEvent("frame")
    /\ UNCHANGED << pc, stream >>
    /\ StreamUnchanged

\* chat_stream lines 290-291: any exception of the request or of the
\* decoding is yielded as text, after which the generator ends
StreamFailed(e) ==
    /\ pc = "streaming"
    /\ stream = "open"
    /\ stream' = "failed"
    /\ full_response' = accumulate(full_response, ErrorChunk(e))
    /\ yielded' = Append(yielded, ErrorChunk(e))
    /\ last' = StreamEvent("error")
    /\ UNCHANGED << pc, frames >>
    /\ StreamUnchanged

\* main lines 397-402: the generator is exhausted, the reply is stored and
\* the run ends
StreamEnded ==
    /\ pc = "streaming"
    /\ messages' = append_assistant(Session, full_response)
    /\ selectbox' = IF selectbox_rendered THEN selectbox ELSE NoWidgetState
    /\ pc' = "idle"
    /\ prompt' = NoPrompt
    /\ full_response' = <<>>
    /\ payload' = NoPayload
    /\ stream' = "none"
    /\ frames' = 0
    /\ H' = <<>>
    /\ yielded' = <<>>
    /\ last' = StreamEvent("end")
    /\ UNCHANGED << model, current_chat_model, show_model_switch_warning,
                    temperature, context_length, confirm_shown,
                    chat_input_shown, selectbox_rendered, catalog, pendingH,
                    content, output >>

\* the k-th frame of the response: a JSON object with a "message" that
\* carries the k-th piece of the reply, or an object without "message"
Frames(k) ==
    { [ has_message |-> TRUE, content |-> << Reply[((k - 1) % Len(Reply)) + 1] >> ],
      [ has_message |-> FALSE, content |-> <<>> ] }

Next ==
    \/ PageLoad
    \/ \E m \in { DEFAULT_MODEL, "m1", "m2" } : SelectModel(m)
    \/ ClickConfirm
    \/ ClickCancel
    \/ ClickClear
    \/ \E text \in Prompts : SubmitPrompt(text)
    \/ \E frame \in Frames(frames + 1) : FrameReceived(frame)
    \/ \E e \in Errors : StreamFailed(e)
    \/ StreamEnded

Spec == Init /\ [][Next]_vars

(* ----------------- process_message on its own inputs ------------------- *)
\* lines with and without a fence: empty, plain, a bare fence, an indented
\* fence with a language tag, two backticks, a fence not at the start
Lines == { EmptyLine,
           << "a" >>,
           Fence,
           << " ", Backtick, Backtick, Backtick, "j", "s", " " >>,
           << Backtick, Backtick >>,
           << "a", Backtick, Backtick, Backtick >> }

RECURSIVE Texts(_)
Texts(n) ==
    IF n = 1 THEN { << l >> : l \in Lines }
    ELSE Texts(n - 1) \cup { Append(t, l) : t \in Texts(n - 1), l \in Lines }

InitFormat ==
    /\ SessionInit
    /\ content \in Texts(MaxLines)
    /\ output = NotProcessed

\* st.markdown(process_message(...)), lines 372 and 395
ProcessMessage ==
    /\ output = NotProcessed
    /\ output' = process_message(content)
    /\ UNCHANGED << messages, model, current_chat_model,
                    show_model_switch_warning, temperature, context_length,
                    selectbox, confirm_shown, chat_input_shown,
                    selectbox_rendered, pc, prompt, full_response, payload,
                    stream, frames, catalog, H, yielded, pendingH, content,
                    last >>

NextFormat == ProcessMessage

SpecFormat == InitFormat /\ [][NextFormat]_vars

(* ------------------------------ properties ----------------------------- *)
\* role and content of each message, as chat_stream copies them
RoleContent(h) ==
    [ i \in 1..Len(h) |-> [ role |-> h[i].role, content |-> h[i].content ] ]

\* t1 + ... + tn
RECURSIVE Concat(_)
Concat(ts) == IF ts = <<>> THEN <<>> ELSE Head(ts) \o Concat(Tail(ts))

\* C1: the messages posted for an accepted prompt are the system message,
\* then role and content of the history as it was before the turn, then the
\* new utterance once, as the last element.
C1_PayloadIsSystemHistoryUtterance ==
    pc = "streaming" =>
        payload.messages = << system_msg >> \o RoleContent(H)
                             \o << [ role |-> "user", content |-> prompt ] >>

\* C2: when the stream of an accepted turn ends, history is the history
\* before the turn followed by the user message and by the assistant message
\* whose content is the concatenation of the yielded chunks in arrival order,
\* tagged with the active model.
C2_ReplyIsConcatenationOfDeltas ==
    [][ last'.kind = "end" =>
          messages' = H \o << [ role |-> "user", content |-> prompt ],
                              [ role |-> "assistant",
                                content |-> Concat(yielded),
                                model |-> current_chat_model ] >> ]_vars

C2_Witness_TwoDeltasAfterHistory ==
    /\ last.kind = "end"
    /\ last.before = 3
    /\ Len(messages) = 4
    /\ messages[2].role = "assistant"
    /\ messages[4].content = << "Hel", "lo!" >>

\* C3: whenever Clear is executed, from any prior state, the resulting state
\* has an empty history and no active model.
C3_ClearLeavesNoActiveModel ==
    [][ last'.kind = "clear" =>
          messages' = <<>> /\ current_chat_model' = None ]_vars

C5_SelectRaisesWarningOnly ==
    [][ ( /\ pc = "idle"
          /\ last'.kind = "select"
          /\ last'.served
          /\ messages # <<>>
          /\ last'.pick # current_chat_model )
        => ( /\ show_model_switch_warning'
             /\ confirm_shown'
             /\ pc' = "idle"
             /\ messages' = messages
             /\ current_chat_model' = current_chat_model
             /\ model' = model ) ]_vars

C5_Witness_SwitchPending ==
    /\ last.kind = "select"
    /\ last.served
    /\ last.during = "idle"
    /\ last.before = 2
    /\ Len(messages) = 2
    /\ last.pick # current_chat_model
    /\ show_model_switch_warning
    /\ confirm_shown

\* C6: Cancel on a pending switch returns to Idle: the active model and the
\* history are unchanged, no switch confirmation is pending any more and the
\* chat input is offered again.
C6_CancelRevertsSwitch ==
    [][ ( last'.kind = "cancel" /\ last'.served )
        => ( /\ ~show_model_switch_warning'
             /\ ~confirm_shown'
             /\ chat_input_shown'
             /\ pc' = "idle"
             /\ messages' = messages
             /\ current_chat_model' = current_chat_model
             /\ model' = model ) ]_vars

\* C7: Confirm on a pending switch to m yields, in one step, an idle session
\* with empty history, active model m, selected model m and nothing pending;
\* and in no state does the history hold a reply of another model than the
\* active one.
C7_ConfirmSwitchesAtomically ==
    /\ [][ ( last'.kind = "confirm" /\ last'.served )
           => ( /\ messages' = <<>>
                /\ current_chat_model' = selectbox.value
                /\ model' = selectbox.value
                /\ selectbox.value # current_chat_model
                /\ ~show_model_switch_warning'
                /\ ~confirm_shown'
                /\ pc' = "idle" ) ]_vars
    /\ [](\A i \in 1..Len(messages) :
             messages[i].role = "assistant"
                => messages[i].model = current_chat_model)

C7_Witness_SwitchConfirmed ==
    /\ last.kind = "confirm"
    /\ last.served
    /\ last.before >= 2
    /\ messages = <<>>
    /\ current_chat_model = model
    /\ current_chat_model # None
    /\ ~show_model_switch_warning

\* C8: a non-empty history has an active model, and a step between two
\* states with non-empty history keeps the active model.
C8_ActiveModelFixedWhileHistory ==
    /\ [](messages # <<>> => current_chat_model # None)
    /\ [][ ( messages # <<>> /\ messages' # <<>> )
           => current_chat_model' = current_chat_model ]_vars

C8_Witness_SelectionOverHistory ==
    /\ messages # <<>>
    /\ last.kind = "select"
    /\ last.served
    /\ last.before > 0
    /\ selectbox.value # current_chat_model
    /\ current_chat_model # None

\* C9: while the switch warning is up the chat input is not offered and no
\* reply is streaming, no step appends a message, and the history met by a
\* Confirm or Cancel is the one the warning was raised on.
C9_NoPromptWhileSwitchPending ==
    /\ [](show_model_switch_warning =>
             ~chat_input_shown /\ pc # "streaming")
    /\ [][ show_model_switch_warning => Len(messages') <= Len(messages) ]_vars
    /\ [][ ( last'.kind \in { "confirm", "cancel" } /\ last'.served )
           => ( show_model_switch_warning /\ messages = pendingH ) ]_vars

C9_Witness_CancelOnPendingSwitch ==
    /\ last.kind = "cancel"
    /\ last.served
    /\ last.before = Len(messages)
    /\ messages # <<>>
    /\ messages = pendingH
    /\ show_model_switch_warning
    /\ ~chat_input_shown

\* C10: a prompt submitted while a reply is streaming is ignored: it appends
\* nothing, starts no stream and leaves the reply in flight as it is.
C10_SecondSubmitIgnored ==
    [][ ( pc = "streaming" /\ last'.kind = "submit" )
        => UNCHANGED << messages, prompt, payload, full_response, yielded,
                        stream, pc >> ]_vars

\* C11: a Clear executed while a reply is streaming leaves history empty and
\* the active model unset, nothing of the abandoned reply enters the history
\* afterwards, and history becomes non-empty again only by an accepted
\* prompt.
C11_ClearMidStreamStaysCleared ==
    /\ [][ ( pc = "streaming" /\ last'.kind = "clear" )
           => ( /\ messages' = <<>>
                /\ current_chat_model' = None
                /\ pc' = "idle"
                /\ stream' = "none" ) ]_vars
    /\ [][ ( messages = <<>> /\ messages' # <<>> )
           => ( last'.kind = "submit" /\ last'.served ) ]_vars

C16_ClearRejectedWhileSwitchPending ==
    /\ [][ ( show_model_switch_warning /\ last'.kind = "clear" )
           => UNCHANGED << messages, current_chat_model, model,
                           show_model_switch_warning >> ]_vars
    /\ [][ ( show_model_switch_warning /\ model' # model )
           => ( last'.kind = "confirm" /\ last'.served ) ]_vars

\* C18: every assistant message in history carries a model tag that is set
\* and equal to the active model, and the tag of a stored reply is the model
\* its request was sent to.
C18_RepliesTaggedWithActiveModel ==
    /\ [](\A i \in 1..Len(messages) :
             messages[i].role = "assistant"
                => ( /\ messages[i].model # None
                     /\ messages[i].model = current_chat_model ))
    /\ [][ last'.kind = "end"
           => messages'[Len(messages')].model = payload.model ]_vars

C18_Witness_TwoTaggedReplies ==
    /\ last.kind = "end"
    /\ Len(messages) = 4
    /\ messages[2].role = "assistant"
    /\ messages[4].role = "assistant"
    /\ messages[2].model = current_chat_model
    /\ messages[4].model = current_chat_model
    /\ current_chat_model # None

\* user, assistant, user, assistant, ...
Alternates(h) ==
    /\ Len(h) % 2 = 0
    /\ \A i \in 1..Len(h) :
          h[i].role = IF i % 2 = 1 THEN "user" ELSE "assistant"

\* C19: whenever no stream is in flight, history has even length and
\* alternates user, assistant starting with user (so no system message).
C19_IdleHistoryAlternates ==
    pc = "idle" => Alternates(messages)

\* C20: whenever the switch warning is up, history is non-empty, the active
\* model is set and the model picked in the selectbox differs from it.
C20_PendingSwitchHasHistory ==
    show_model_switch_warning =>
        ( /\ messages # <<>>
          /\ current_chat_model # None
          /\ selectbox.value # current_chat_model )

\* C12: when the stream fails after k chunks, chat_stream yields those k
\* chunks and then exactly one more chunk that begins with "Error: "; the
\* script goes on (it receives the text, not an exception), no chunk follows
\* the error chunk, and no chunk before it is an error chunk.
C12_FailureYieldsOneErrorDelta ==
    /\ [][ last'.kind = "error"
           => ( /\ Len(yielded') = Len(yielded) + 1
                /\ SubSeq(yielded', 1, Len(yielded)) = yielded
                /\ Head(yielded'[Len(yielded')]) = "Error: "
                /\ full_response' = full_response \o yielded'[Len(yielded')]
                /\ stream' = "failed"
                /\ pc' = "streaming" ) ]_vars
    /\ [][ stream = "failed" => ~( last'.kind \in { "frame", "error" } ) ]_vars
    /\ [](\A i \in 1..Len(yielded) :
             ( Head(yielded[i]) = "Error: " )
                <=> ( stream = "failed" /\ i = Len(yielded) ))

C12_Witness_ErrorAfterTwoDeltas ==
    /\ stream = "failed"
    /\ pc = "streaming"
    /\ Len(yielded) = 3
    /\ Head(yielded[3]) = "Error: "
    /\ full_response = Concat(yielded)

\* C13: when a turn ends, the last message of history is the assistant
\* reply of that turn and its content is not empty.
C13_TurnEndsWithNonEmptyReply ==
    [][ last'.kind = "end"
        => ( /\ pc' = "idle"
             /\ messages'[Len(messages')].role = "assistant"
             /\ messages'[Len(messages')].content # <<>> ) ]_vars

\* the listing request did not bring back a well-formed list of models
ListingFailed(response) ==
    \/ ~response.reachable
    \/ response.status_code # 200
    \/ ~response.json
    \/ ~response.has_models
    \/ \E i \in 1..Len(response.models) : ~response.models[i].has_name

\* C14: the model listing is [] for every failed request and the installed
\* names otherwise; a page load, an unserved widget event or a prompt whose
\* run could not list the models leaves the selected model and the warning
\* flag as they were (and, but for the prompt's own message, history and
\* active model too); with no switch pending the chat input is drawn in
\* such a run and a prompt is accepted and sent to the active model, or to
\* the selected model when none is active.
C14_FailedListingChangesNothing ==
    /\ [](\A response \in Responses(catalog) :
             models_of_response(response) =
                IF ListingFailed(response) THEN <<>> ELSE catalog)
    /\ [][ ( /\ ~selectbox_rendered'
             /\ \/ last'.kind \in { "load", "submit" }
                \/ last'.kind \in { "select", "confirm", "cancel" } /\ ~last'.served )
           => ( /\ model' = model
                /\ show_model_switch_warning' = show_model_switch_warning
                /\ chat_input_shown' = ~show_model_switch_warning
                /\ ~( last'.kind = "submit" /\ last'.served )
                      => ( /\ messages' = messages
                           /\ current_chat_model' = current_chat_model ) ) ]_vars
    /\ [][ ( /\ last'.kind = "submit"
             /\ ~selectbox_rendered'
             /\ ~show_model_switch_warning )
           => ( /\ last'.served
                /\ pc' = "streaming"
                /\ messages' = Append(messages, [ role |-> "user",
                                                  content |-> prompt' ])
                /\ payload'.model = IF current_chat_model # None
                                    THEN current_chat_model ELSE model
                /\ current_chat_model' = payload'.model ) ]_vars

C14_Witness_PromptAfterFailedListing ==
    /\ last.kind = "submit"
    /\ last.served
    /\ ~selectbox_rendered
    /\ pc = "streaming"
    /\ model = DEFAULT_MODEL
    /\ payload.model = DEFAULT_MODEL
    /\ ~InList(DEFAULT_MODEL, catalog)

\* the fences of a text, and its other lines
FenceLines(text) == SelectSeq(text, IsFence)

NonFenceLines(text) == SelectSeq(text, LAMBDA line : ~IsFence(line))

\* for each line that is not a fence, whether it stands inside a code block
RECURSIVE InCode(_, _)
InCode(text, inside) ==
    IF text = <<>> THEN <<>>
    ELSE IF IsFence(Head(text)) THEN InCode(Tail(text), ~inside)
    ELSE << inside >> \o InCode(Tail(text), inside)

\* C17: in the output of process_message the fences are, in turn, exactly
\* the python fence and the bare fence, in equal number (a block left open is closed); the
\* lines that are not fences are those of the input, unchanged, in the same
\* order and on the same side of the fences (an input without such lines
\* gives the empty text).
C17_FencesNormalisedLinesKept ==
    output # NotProcessed =>
        LET fences == FenceLines(output)
        IN /\ Len(fences) % 2 = 0
           /\ \A i \in 1..Len(fences) :
                 fences[i] = IF i % 2 = 1 THEN FencePython ELSE Fence
           /\ IF NonFenceLines(content) = <<>>
              THEN output = << EmptyLine >>
              ELSE /\ NonFenceLines(output) = NonFenceLines(content)
                   /\ InCode(output, FALSE) = InCode(content, FALSE)

C17_Witness_OpenTaggedBlockClosed ==
    /\ content = << << "a" >>,
                    << " ", Backtick, Backtick, Backtick, "j", "s", " " >>,
                    << "a", Backtick, Backtick, Backtick >> >>
    /\ output = << << "a" >>, FencePython, << "a", Backtick, Backtick, Backtick >>, Fence >>

====
